---- MODULE Spec2Model ----
(***************************************************************************)
(* The transcoding service: the pending-task scheduler, the work queue,    *)
(* the job consumer and the transcoding orchestrator.                      *)
(*                                                                         *)
(* Every await of the code is a point where another handler may run, so    *)
(* each action is the code between two awaits (or one event callback).     *)
(***************************************************************************)
EXTENDS Integers, Sequences, FiniteSets, TLC

---------------------------------------------------------------------------
(* Bounds of the model *)

\* tasks held by the registry
NumTasks == 2
\* longest resolution list of a task
MaxRes == 2
\* deliveries to the consumer that are followed, each with its own record
MaxSlots == 2
\* runs of the interval timer that are followed, together with the calls of
\* sendTranscodeVideoJob from outside the scheduler and of transcodeVideo
\* from outside the consumer
MaxTicks == 2
\* PUT "Processing" requests that wait for their answer at one time
MaxStarting == 2
\* calls of channel.consume that are followed: the consumer registered and
\* the call the broker has refused, together
MaxConsumers == 1
\* calls of transcodeVideo from outside the consumer that are followed
MaxCalls == 1

---------------------------------------------------------------------------
(* Program constants *)

\* getAvailableQueueSlots: const MAX_QUEUE_CAPACITY = 10
MAX_QUEUE_CAPACITY == 10
\* startTranscodeVideoConsumer: channel.prefetch(1)
PREFETCH == 1
NackRequeue_m == TRUE

\* channel.nack(msg, false, false): the third argument
NackRequeue == FALSE

TaskIds == 1..NumTasks
Cycles == 1..MaxTicks
Slots == 1..MaxSlots

\* VideoUploadResolution values the registry hands out
R360 == [width |-> 640, height |-> 360, bitrate |-> 800, fps |-> 30]
R720 == [width |-> 1280, height |-> 720, bitrate |-> 2500, fps |-> 30]
R1080 == [width |-> 1920, height |-> 1080, bitrate |-> 5000, fps |-> 30]
AllRes == <<R360, R720, R1080>>

Min(a, b) == IF a <= b THEN a ELSE b

VARIABLES
    boot,       \* the process: where start-up stands, what it has started
    channel,    \* rabbitmq.connection: the module-level channel is set
    tasks,      \* the registry's tasks: id -> videoUpload
    regStatus,  \* the registry's status of each task
    issued,     \* the last status update issued for each task
    queue,      \* the broker: messages ready in the work queue
    ticks,      \* how many times the interval timer has fired
    published,  \* the tasks a Job Message has been published for
    cyc,        \* the invocations of processPendingTasks
    job,        \* the deliveries to the consumer and their orchestrator runs
    sends,      \* how often sendTranscodeVideoJob or transcodeVideo was called
                \* from outside the scheduler and the consumer
    sending,    \* those calls that await assertQueue, per task
    starting,   \* the PUT "Processing" requests still to be answered, per task
    refused     \* a channel.consume the broker has refused, its promise pending

vars == <<boot, channel, tasks, regStatus, issued, queue, ticks, published, cyc, job,
          sends, sending, starting, refused>>

---------------------------------------------------------------------------
(* The task registry (an external service) *)

NoUpdate == [status |-> "none", diag |-> <<"none", 0>>]

\* ids of the tasks whose status is still "pending", in id order
RECURSIVE PendingFrom(_, _)
PendingFrom(t, st) ==
    IF t > NumTasks THEN <<>>
    ELSE IF st[t] = "pending" THEN <<t>> \o PendingFrom(t + 1, st)
    ELSE PendingFrom(t + 1, st)

\* GET queued-tasks/pendingList?limit=N: a page of at most N pending tasks
PendingList(limit, st) ==
    LET all == PendingFrom(1, st)
    IN SubSeq(all, 1, Min(limit, Len(all)))

---------------------------------------------------------------------------
(* Startup *)

JobPayload_m(t, task) ==
    [inputPath |-> task.path,
     resolutions |-> SubSeq(task.resolution, 1, Len(task.resolution) - 1),
     queuedTaskId |-> t]

\* processTask: the Job Message built from a registry task (outputPath, which
\* the consumer passes on as the unused _outputPath, is left out)
JobPayload(t, task) ==
    [inputPath |-> task.path, resolutions |-> task.resolution, queuedTaskId |-> t]

\* sendTranscodeVideoJob: Buffer.from(JSON.stringify(payload))
\* a string is the sequence of its characters
DigitChars == <<"0", "1", "2", "3", "4", "5", "6", "7", "8", "9">>

\* Number.prototype.toString() of a non-negative integer: its decimal digits
RECURSIVE NumberToString(_)
NumberToString(n) ==
    IF n < 10 THEN <<DigitChars[n + 1]>>
    ELSE NumberToString(n \div 10) \o <<DigitChars[(n % 10) + 1]>>

\* JSON.stringify of a resolution: its numbers become their decimal digits
StringifyResolution(r) ==
    [width |-> NumberToString(r.width), height |-> NumberToString(r.height),
     bitrate |-> NumberToString(r.bitrate), fps |-> NumberToString(r.fps)]

Stringify(payload) ==
    [wellFormed |-> TRUE,
     text |-> [inputPath |-> payload.inputPath,
               resolutions |-> [i \in DOMAIN payload.resolutions |->
                                   StringifyResolution(payload.resolutions[i])],
               queuedTaskId |-> NumberToString(payload.queuedTaskId)]]

\* the number a digit stands for
DigitValue(ch) == CHOOSE d \in 0..9 : DigitChars[d + 1] = ch

\* JSON.parse of a number written in decimal digits
RECURSIVE ParseNumber(_)
ParseNumber(str) ==
    IF Len(str) = 1 THEN DigitValue(str[1])
    ELSE 10 * ParseNumber(SubSeq(str, 1, Len(str) - 1)) + DigitValue(str[Len(str)])

ParseResolution(r) ==
    [width |-> ParseNumber(r.width), height |-> ParseNumber(r.height),
     bitrate |-> ParseNumber(r.bitrate), fps |-> ParseNumber(r.fps)]

\* const data: VideoTranscodeJob = JSON.parse(msg.content.toString())
Parse(content) ==
    [inputPath |-> content.text.inputPath,
     resolutions |-> [i \in DOMAIN content.text.resolutions |->
                         ParseResolution(content.text.resolutions[i])],
     queuedTaskId |-> ParseNumber(content.text.queuedTaskId)]

\* sendTranscodeVideoJob: assertQueue(queue, {durable: true})
ProducerDurable == TRUE

\* startTranscodeVideoConsumer: assertQueue(queue, {durable: true})
ConsumerDurable == TRUE

Persistent_m == FALSE

\* sendTranscodeVideoJob: sendToQueue(queue, content, {persistent: true})
Persistent == TRUE

\* startTranscodeVideoConsumer: consume(queue, callback, {noAck: false})
NoAck == FALSE

\* assertQueue on a queue that exists with another durable flag fails; the
\* consumer declares the queue at start-up, before the scheduler runs
AssertQueueThrows(durable) == durable # ConsumerDurable

\* sendToQueue: the message as the broker holds it, its content with the
\* persistent flag of the publish and the durable flag of the declaration
SendToQueue(payload) ==
    [wellFormed |-> Stringify(payload).wellFormed,
     text |-> Stringify(payload).text,
     persistent |-> Persistent,
     queueDurable |-> ProducerDurable]

\* content that is no JSON text, published by another client
Garbage == [wellFormed |-> FALSE,
            text |-> [inputPath |-> <<>>, resolutions |-> <<>>, queuedTaskId |-> <<>>],
            persistent |-> FALSE,
            queueDurable |-> ConsumerDurable]

\* The registry's tasks and what the durable queue holds when the process
\* starts: nothing ("fresh"), Job Messages left by an earlier run of the
\* service that fill it nearly (they are for task 1, still pending:
\* "backlog"), or a message of another client that is no JSON text ("foreign")
Scenarios == {"fresh", "backlog", "foreign"}

InitialQueue(sc, task1) ==
    IF sc = "fresh" THEN <<>>
    ELSE IF sc = "foreign" THEN <<Garbage>>
    ELSE [i \in 1..(MAX_QUEUE_CAPACITY - 1) |-> SendToQueue(JobPayload(1, task1))]

\* how many resolutions task t asks for: the first task has the empty list;
\* the others one resolution more than the task before them in "backlog",
\* otherwise the longest list
ResLen(sc, t) ==
    IF sc = "backlog" THEN Min(t - 1, MaxRes)
    ELSE IF t = 1 THEN 0 ELSE MaxRes

Registry(sc) ==
    [t \in TaskIds |->
        [path |-> <<"in", t, ".mp4">>, resolution |-> SubSeq(AllRes, 1, ResLen(sc, t))]]

\* a request to the registry that changes a status: the registry records it
\* when the request arrives ("applied"), or nothing is recorded before the
\* answer ("awaited") and a good answer tells that it is recorded by now.
\* Either way the answer can fail: the caller of a request that was recorded
\* sees a failure all the same when the answer is lost or times out
Outcomes == {"applied", "awaited"}

\* no PUT "Processing" waits for its answer
NoneStarting == [applied |-> 0, awaited |-> 0]

\* an invocation of processPendingTasks: where it stands, the availableSlots
\* it computed, the pendingTasks still to process, whether its depth read
\* or its registry fetch has failed, and the PATCH it waits for
IdleCycle == [pc |-> "idle", avail |-> 0, batch |-> <<>>, err |-> FALSE, req |-> "none"]

AbortedCycle == [IdleCycle EXCEPT !.pc = "aborted", !.err = TRUE]

\* the data of a callback that has parsed nothing
NoData == [inputPath |-> <<>>, resolutions |-> <<>>, queuedTaskId |-> 0]

\* a consume callback: the message it was called with, the data it parsed,
\* the state of the delivery, of transcodeVideo and of each encoder, the
\* sub-tasks in the order they resolved, the master.m3u8 written, and the
\* PUT "Completed" it waits for
FreeJob == [st |-> "free", run |-> "none", msg |-> Garbage, data |-> NoData,
            enc |-> <<>>, done |-> <<>>, manifest |-> <<>>, writes |-> 0,
            req |-> "none"]

Init ==
    /\ boot = "start"
    /\ channel = FALSE
    /\ regStatus = [t \in TaskIds |-> "pending"]
    /\ issued = [t \in TaskIds |-> NoUpdate]
    /\ \E sc \in Scenarios :
          /\ tasks = Registry(sc)
          /\ queue = InitialQueue(sc, Registry(sc)[1])
    /\ ticks = 0
    /\ published = {}
    /\ cyc = [c \in Cycles |-> IdleCycle]
    /\ job = [s \in Slots |-> FreeJob]
    /\ sends = 0
    /\ sending = [t \in TaskIds |-> 0]
    /\ starting = [t \in TaskIds |-> NoneStarting]
    /\ refused = FALSE

\* connectRabbitMQ: the channel is set only when both awaits succeed; a
\* failed call leaves the variable as it was
ConnectRabbitMQ(ok) ==
    /\ boot = "start"
    /\ channel' = (channel \/ ok)
    /\ boot' = IF ok THEN "connected" ELSE "failed"
    /\ UNCHANGED <<tasks, regStatus, issued, queue, ticks, published, cyc, job, sends, sending, starting, refused>>

GetChannelThrows_m == FALSE

\* getChannel: throws "RabbitMQ channel not initialized" unless the channel is set
GetChannelThrows == ~channel

\* the process runs: node ends it on a promise rejection that nobody
\* handles (its default, --unhandled-rejections=throw; the repository
\* installs no unhandledRejection handler), and then nothing of it is left
Alive == boot # "exited"

\* the callback of channel.consume is registered
ConsumerOn == boot \in {"up", "consuming"}

\* the interval timer of startPendingTasksScheduler is armed
TimerOn == boot \in {"up", "early"}

\* the calls of channel.consume that hold a consumer or wait to be rejected
Consumers == (IF ConsumerOn THEN 1 ELSE 0) + (IF refused THEN 1 ELSE 0)

\* what becomes of startServer after the connect: everything is started
\* ("up"); assertQueue or prefetch fails and the catch logs it, nothing is
\* started ("failed"); app.listen throws after the consumer was registered
\* and the catch skips startPendingTasksScheduler ("consuming"); the broker
\* refuses the consume, whose promise is not awaited, so the timer is
\* started all the same and runs with no consumer ("early"); or the broker
\* refuses the consume and app.listen throws, nothing is started ("refused")
StartOutcomes == {"up", "failed", "consuming", "early", "refused"}

\* the outcomes in which channel.consume was called and refused
ConsumeRefused(outcome) == outcome \in {"early", "refused"}

StartConsumerAndScheduler_m(outcome) ==
    /\ boot \in {"connected", "failed"}
    /\ boot' = "up"
    /\ UNCHANGED <<channel, tasks, regStatus, issued, queue, ticks, published, cyc, job, sends, sending, starting, refused>>

\* startTranscodeVideoConsumer, then app.listen and startPendingTasksScheduler
\* (a start-up that gets as far as channel.consume is followed only within
\* MaxConsumers; one that fails before it calls no consume)
StartConsumerAndScheduler(outcome) ==
    /\ boot = "connected"
    /\ GetChannelThrows \/ outcome = "failed" \/ Consumers < MaxConsumers
    /\ boot' = IF GetChannelThrows \/ outcome = "refused" THEN "failed" ELSE outcome
    /\ refused' = (refused \/ (~GetChannelThrows /\ ConsumeRefused(outcome)))
    /\ UNCHANGED <<channel, tasks, regStatus, issued, queue, ticks, published, cyc, job, sends, sending, starting>>

\* the promise of a channel.consume the broker has refused rejects:
\* startTranscodeVideoConsumer does not await it, nobody handles the
\* rejection and the process ends, whatever else it had started
ConsumeRejected ==
    /\ Alive
    /\ refused
    /\ refused' = FALSE
    /\ boot' = "exited"
    /\ UNCHANGED <<channel, tasks, regStatus, issued, queue, ticks, published, cyc, job, sends, sending, starting>>

---------------------------------------------------------------------------
(* The scheduler *)

AvailableQueueSlots_m(messageCount) == MAX_QUEUE_CAPACITY

\* getAvailableQueueSlots: MAX_QUEUE_CAPACITY - messageCount
AvailableQueueSlots(messageCount) == MAX_QUEUE_CAPACITY - messageCount

QueueIsFull_m(availableSlots) == availableSlots < 0

\* processPendingTasks: if (availableSlots <= 0) return
QueueIsFull(availableSlots) == availableSlots <= 0

\* an invocation of processPendingTasks that has not returned
Active(c) == cyc[c].pc \in {"depth", "fetch", "loop", "report"}

NewCycle_m(old, availableSlots) == [old EXCEPT !.pc = "fetch"]

\* processPendingTasks: availableSlots and pendingTasks are constants local
\* to the invocation, so an invocation starts with nothing of the one (old)
\* that ran before it
NewCycle(old, availableSlots) ==
    [IdleCycle EXCEPT !.pc = "fetch", !.avail = availableSlots]

\* setInterval(processPendingTasks, ...): the timer fires, whether or not an
\* earlier invocation has returned, and processPendingTasks runs up to
\* await channel.checkQueue. The invocation takes the lowest record not in
\* use; when getChannel throws, the catch ends the cycle in the same turn
Tick(c) ==
    /\ TimerOn
    /\ ticks + sends < MaxTicks
    /\ ~Active(c)
    /\ \A d \in Cycles : d < c => Active(d)
    /\ ticks' = ticks + 1
    /\ cyc' = [cyc EXCEPT ![c] =
            IF GetChannelThrows THEN AbortedCycle
            ELSE [IdleCycle EXCEPT !.pc = "depth"]]
    /\ UNCHANGED <<boot, channel, tasks, regStatus, issued, queue, published, job, sends, sending, starting, refused>>

\* checkQueue answers with the depth the queue has then, or fails: the catch
\* ends the cycle, a full queue ends it, otherwise the registry is asked
CheckQueueAnswered(c, ok) ==
    /\ Alive
    /\ cyc[c].pc = "depth"
    /\ LET availableSlots == AvailableQueueSlots(Len(queue))
       IN cyc' = [cyc EXCEPT ![c] =
            IF ~ok THEN AbortedCycle
            ELSE IF QueueIsFull(availableSlots)
                 THEN [IdleCycle EXCEPT !.pc = "skipped"]
                 ELSE NewCycle(cyc[c], availableSlots)]
    /\ UNCHANGED <<boot, channel, tasks, regStatus, issued, queue, ticks, published, job, sends, sending, starting, refused>>

FetchResult_m(ok, limit, st) == PendingList(limit, st)

\* fetchPendingTasks(limit): response.data.data, or [] from the catch
FetchResult(ok, limit, st) == IF ok THEN PendingList(limit, st) ELSE <<>>

\* processPendingTasks: if (pendingTasks.length === 0) return
NoPendingTasks(pendingTasks) == Len(pendingTasks) = 0

NothingToDo_m == [IdleCycle EXCEPT !.pc = "fetch"]

\* the invocation has returned on an empty list of the registry
NothingToDo == [IdleCycle EXCEPT !.pc = "nothing"]

\* const pendingTasks = await fetchPendingTasks(availableSlots): an empty list
\* ends the cycle, and a failed call gives the empty list
FetchPendingTasks(c, ok) ==
    /\ Alive
    /\ cyc[c].pc = "fetch"
    /\ LET pendingTasks == FetchResult(ok, cyc[c].avail, regStatus)
       IN cyc' = [cyc EXCEPT ![c] =
            IF NoPendingTasks(pendingTasks)
            THEN IF ok THEN NothingToDo ELSE AbortedCycle
            ELSE [@ EXCEPT !.pc = "loop", !.batch = pendingTasks, !.err = ~ok]]
    /\ UNCHANGED <<boot, channel, tasks, regStatus, issued, queue, ticks, published, job, sends, sending, starting, refused>>

\* updateTaskStatus(task.id, 'Error', error): PATCH updateStatus, failures swallowed
UpdateTaskStatusError(t, ok, st) ==
    IF ok THEN [st EXCEPT ![t] = "Error"] ELSE st

\* what a catch hands on as error: an Error object with its message; a
\* thrown value that is no Error; or nothing (undefined)
ErrorObject(message) == [given |-> TRUE, isError |-> TRUE, message |-> message]
ThrownValue == [given |-> TRUE, isError |-> FALSE, message |-> <<"none", 0>>]
NoError == [given |-> FALSE, isError |-> FALSE, message |-> <<"none", 0>>]

UpdateTaskStatusPayload_m(status, error) == [status |-> status, diag |-> <<"none", 0>>]

\* updateTaskStatus: payload = {status}; if (status === 'Error' && error)
\* payload.error_message is the message of an Error, "Unknown error" of
\* any other value
UpdateTaskStatusPayload(status, error) ==
    [status |-> status,
     diag |-> IF status = "Error" /\ error.given
              THEN IF error.isError THEN error.message ELSE <<"Unknown error", 0>>
              ELSE <<"none", 0>>]

\* what sendTranscodeVideoJob throws to the catch of processTask: the Error
\* of getChannel or of the broker client
PublishError == ErrorObject(<<"publish", 0>>)

StatusAfterPublish_m(t, st) == [st EXCEPT ![t] = "Queued"]

\* processTask, after sendTranscodeVideoJob: the call
\* updateTaskStatus(task.id, 'Queued') is commented out, so the registry
\* hears nothing of a published task
StatusAfterPublish(t, st) == st

ProcessTaskThrows_m(sent, ok) == ~sent /\ ~ok

\* processTask: its catch covers the whole body and updateTaskStatus swallows
\* the failure of its own call, so nothing is thrown to the for loop
ProcessTaskThrows(sent, ok) == FALSE

NextTask_m(pendingTasks) == pendingTasks[Len(pendingTasks)]

\* for (const task of pendingTasks): the tasks are taken from the front
NextTask(pendingTasks) == Head(pendingTasks)

\* one turn of the for loop, processTask(task): sendTranscodeVideoJob waits
\* at assertQueue, and on its answer the message is sent and the loop goes
\* on to the next task, or the call has failed and the catch sends the PATCH
\* that reports the task as "Error" and waits for its answer
ProcessTask(c, sent, how) ==
    /\ Alive
    /\ cyc[c].pc = "loop"
    /\ LET t == NextTask(cyc[c].batch)
           rest == IF ProcessTaskThrows(sent, TRUE) THEN <<>> ELSE Tail(cyc[c].batch)
       IN IF sent
          THEN /\ how = "applied"
               /\ ~GetChannelThrows
               /\ ~AssertQueueThrows(ProducerDurable)
               /\ queue' = Append(queue, SendToQueue(JobPayload(t, tasks[t])))
               /\ published' = published \cup {t}
               /\ regStatus' = StatusAfterPublish(t, regStatus)
               /\ UNCHANGED issued
               /\ cyc' = [cyc EXCEPT ![c] =
                     IF rest = <<>> THEN IdleCycle ELSE [@ EXCEPT !.batch = rest]]
          ELSE /\ regStatus' = UpdateTaskStatusError(t, how = "applied", regStatus)
               /\ issued' = [issued EXCEPT ![t] =
                     UpdateTaskStatusPayload("Error", PublishError)]
               /\ cyc' = [cyc EXCEPT ![c] = [@ EXCEPT !.pc = "report", !.req = how]]
               /\ UNCHANGED <<queue, published>>
    /\ UNCHANGED <<boot, channel, tasks, ticks, job, sends, sending, starting, refused>>

\* the PATCH of updateTaskStatus is answered, or fails and the failure is
\* swallowed: processTask returns and the loop goes on; had processTask
\* thrown, the catch of processPendingTasks would end the cycle
UpdateTaskStatusAnswered(c, ok) ==
    /\ Alive
    /\ cyc[c].pc = "report"
    /\ LET t == NextTask(cyc[c].batch)
           rest == IF ProcessTaskThrows(FALSE, ok) THEN <<>> ELSE Tail(cyc[c].batch)
       IN /\ regStatus' = UpdateTaskStatusError(t, ok /\ cyc[c].req = "awaited", regStatus)
          /\ cyc' = [cyc EXCEPT ![c] =
                IF rest = <<>> THEN IdleCycle
                ELSE [@ EXCEPT !.pc = "loop", !.batch = rest, !.req = "none"]]
    /\ UNCHANGED <<boot, channel, tasks, issued, queue, ticks, published, job, sends, sending, starting, refused>>

---------------------------------------------------------------------------
(* The orchestrator (ffmpeg.utils) and the consumer *)

\* the delivery has been neither acknowledged nor rejected
Unsettled(s) == job[s].st \in {"crashed", "unacked"}

\* an encoder process of the slot's job can still raise events
Live(s) == \E i \in DOMAIN job[s].enc : job[s].enc[i] \in {"launched", "started"}

\* on("error") has sent its PUT "Error" and waits for the answer; the state
\* of the sub-task tells what becomes of the request
Errored == [applied |-> "erroredApplied", awaited |-> "erroredAwaited"]

Reporting(s) == \E i \in DOMAIN job[s].enc : \E how \in Outcomes :
                    job[s].enc[i] = Errored[how]

\* the record has taken no delivery yet
Unused(s) == job[s].st = "free"

BrokerMayDeliver_m == TRUE

\* channel.prefetch(1): the broker hands out a message only while fewer than
\* prefetch deliveries are unacknowledged
BrokerMayDeliver == Cardinality({s \in Slots : Unsettled(s)}) < PREFETCH

\* JSON.parse(msg.content.toString()) throws on content that is no JSON text
ParseThrows(content) == ~content.wellFormed

\* String.prototype.replace(pattern, replacement) with a one-character string
\* pattern: the first occurrence is replaced, a string without one is unchanged
RECURSIVE Replace(_, _, _)
Replace(str, ch, replacement) ==
    IF str = <<>> THEN <<>>
    ELSE IF Head(str) = ch THEN replacement \o Tail(str)
    ELSE <<Head(str)>> \o Replace(Tail(str), ch, replacement)

\* transcodeResolution on("end"): bitrate.toString().replace("k", "000")
Bandwidth(bitrate) == Replace(NumberToString(bitrate), "k", <<"0", "0", "0">>)

\* transcodeResolution on("end"): the Playlist the sub-task resolves with
Playlist(resolution) ==
    [resolution |-> resolution, path |-> <<resolution.height, "p/index.m3u8">>,
     bandwidth |-> Bandwidth(resolution.bitrate)]

PromiseAll_m(resolutions, done) ==
    [k \in 1..Len(done) |-> Playlist(resolutions[done[k]])]

\* const playlistResults = await Promise.all(resolutions.map(...)): the
\* results stand in the order of the resolutions, whatever the order (done)
\* in which the sub-tasks resolved
PromiseAll(resolutions, done) ==
    [k \in 1..Len(resolutions) |-> Playlist(resolutions[k])]

MasterPlaylist_m(playlistResults) ==
    <<[marker |-> "#EXTM3U"]>> \o
    [i \in 1..Min(1, Len(playlistResults)) |->
        [bandwidth |-> playlistResults[i].bandwidth,
         width |-> playlistResults[i].resolution.width,
         height |-> playlistResults[i].resolution.height,
         path |-> playlistResults[i].path]]

\* transcodeVideo: "#EXTM3U\n" + one stream line per playlist result
MasterPlaylist(playlistResults) ==
    <<[marker |-> "#EXTM3U"]>> \o
    [i \in 1..Len(playlistResults) |->
        [bandwidth |-> playlistResults[i].bandwidth,
         width |-> playlistResults[i].resolution.width,
         height |-> playlistResults[i].resolution.height,
         path |-> playlistResults[i].path]]

AllResolved_m(enc) == \E i \in DOMAIN enc : enc[i] = "resolved"

\* Promise.all resolves when every sub-task has resolved
AllResolved(enc) == \A i \in DOMAIN enc : enc[i] = "resolved"

AfterJoin_m(j) == [j EXCEPT !.run = "creating"]

\* transcodeVideo after Promise.all resolved: master.m3u8 is written and the
\* videos/create call is sent
AfterJoin(j) ==
    [j EXCEPT !.run = "creating",
              !.manifest = MasterPlaylist(PromiseAll(j.data.resolutions, j.done)),
              !.writes = @ + 1]

Settle_m(j, outcome) == [j EXCEPT !.run = outcome, !.st = "acked"]

\* the consume callback around transcodeVideo: channel.ack(msg) when it
\* resolves, channel.nack(msg, false, false) when it throws; an invocation
\* called from elsewhere ("called") returns or throws to its caller and no
\* message is settled
Settle(j, outcome) ==
    [j EXCEPT !.run = outcome,
              !.st = IF j.st = "called" THEN "called"
                     ELSE IF outcome = "resolved" THEN "acked" ELSE "nacked"]

\* a rejected message goes back to the queue only if nack asks for a requeue
Requeued(j) == IF NackRequeue /\ j.st # "called" THEN <<j.msg>> ELSE <<>>

\* the consume callback up to the first await of transcodeVideo: one encoder
\* is launched per resolution; with noAck: false the delivery stays
\* unacknowledged until the callback settles it. JSON.parse stands before
\* the try of the async callback: when it throws, nobody handles the
\* rejection and the process ends
Deliver(s) ==
    /\ ConsumerOn
    /\ queue # <<>>
    /\ BrokerMayDeliver
    /\ Unused(s)
    /\ \A r \in Slots : r < s => ~Unused(r)
    /\ LET msg == Head(queue)
           data == IF ParseThrows(msg) THEN NoData ELSE Parse(msg)
           launched == [i \in 1..Len(data.resolutions) |-> "launched"]
           j == [st |-> IF NoAck THEN "acked" ELSE "unacked",
                 run |-> "encoding", msg |-> msg, data |-> data,
                 enc |-> launched, done |-> <<>>, manifest |-> <<>>, writes |-> 0,
                 req |-> "none"]
       IN job' = [job EXCEPT ![s] =
            IF ParseThrows(msg)
            THEN [j EXCEPT !.st = "crashed", !.run = "none", !.enc = <<>>]
            ELSE IF AllResolved(launched) THEN AfterJoin(j)
            ELSE j]
    /\ queue' = Tail(queue)
    /\ boot' = IF ParseThrows(Head(queue)) THEN "exited" ELSE boot
    /\ UNCHANGED <<channel, tasks, regStatus, issued, ticks, published, cyc, sends, sending, starting, refused>>

StartReport_m == NoUpdate

\* on("start"): the body of the PUT, {status: "Processing", start_time}
StartReport == [status |-> "Processing", diag |-> <<"none", 0>>]

\* the PUT "Processing" requests that wait for their answer, of tasks 1..t
RECURSIVE StartsAwaited(_)
StartsAwaited(t) ==
    IF t = 0 THEN 0
    ELSE starting[t].applied + starting[t].awaited + StartsAwaited(t - 1)

\* on("start") up to its await: PUT update/{id} {status: "Processing"} is
\* sent; nothing of the handler runs after the answer
EncoderStart(s, i, how) ==
    /\ Alive
    /\ i \in DOMAIN job[s].enc
    /\ job[s].enc[i] = "launched"
    /\ StartsAwaited(NumTasks) < MaxStarting
    /\ LET t == job[s].data.queuedTaskId
       IN /\ issued' = [issued EXCEPT ![t] = StartReport]
          /\ regStatus' = IF how = "applied" THEN [regStatus EXCEPT ![t] = "Processing"]
                          ELSE regStatus
          /\ starting' = [starting EXCEPT ![t][how] = @ + 1]
    /\ job' = [job EXCEPT ![s].enc[i] = "started"]
    /\ UNCHANGED <<boot, channel, tasks, queue, ticks, published, cyc, sends, sending, refused>>

\* a PUT "Processing" for task t is answered, whatever has become of the
\* encoder and its job by then. on("start") awaits the PUT with no try, so
\* nobody handles its failure and the process ends, whether or not the
\* registry has recorded the request
EncoderStartAnswered(t, how, ok) ==
    /\ Alive
    /\ starting[t][how] > 0
    /\ starting' = [starting EXCEPT ![t][how] = @ - 1]
    /\ regStatus' = IF ok /\ how = "awaited" THEN [regStatus EXCEPT ![t] = "Processing"]
                    ELSE regStatus
    /\ boot' = IF ok THEN boot ELSE "exited"
    /\ UNCHANGED <<channel, tasks, issued, queue, ticks, published, cyc, job, sends, sending, refused>>

\* on("end"): resolve(playlist); the last one lets transcodeVideo go on
EncoderEnd(s, i) ==
    /\ Alive
    /\ i \in DOMAIN job[s].enc
    /\ job[s].enc[i] = "started"
    /\ LET j == [job[s] EXCEPT !.enc[i] = "resolved", !.done = Append(@, i)]
       IN job' = [job EXCEPT ![s] =
            IF j.run = "encoding" /\ AllResolved(j.enc) THEN AfterJoin(j) ELSE j]
    /\ UNCHANGED <<boot, channel, tasks, regStatus, issued, queue, ticks, published, cyc, sends, sending, starting, refused>>

\* on("error") up to its await: PUT update/{id} {status: "Error"} is sent
EncoderError(s, i, how) ==
    /\ Alive
    /\ i \in DOMAIN job[s].enc
    /\ job[s].enc[i] \in {"launched", "started"}
    /\ LET t == job[s].data.queuedTaskId
       IN /\ issued' = [issued EXCEPT ![t] =
                [status |-> "Error", diag |-> <<"ffmpeg", i>>]]
          /\ regStatus' = IF how = "applied" THEN [regStatus EXCEPT ![t] = "Error"]
                          ELSE regStatus
    /\ job' = [job EXCEPT ![s].enc[i] = Errored[how]]
    /\ UNCHANGED <<boot, channel, tasks, queue, ticks, published, cyc, sends, sending, starting, refused>>

\* the PUT "Error" is answered and on("error") goes on to reject(err); when
\* the PUT fails, recorded by the registry or not, the handler throws before
\* reject(err): the sub-task's promise is never settled, nobody handles the
\* handler's rejection and the process ends. The first reject(err) makes Promise.all reject,
\* transcodeVideo throw and the consumer reject the message
EncoderErrorAnswered(s, i, ok) ==
    /\ Alive
    /\ i \in DOMAIN job[s].enc
    /\ \E how \in Outcomes : job[s].enc[i] = Errored[how]
    /\ LET t == job[s].data.queuedTaskId
           j == [job[s] EXCEPT !.enc[i] = IF ok THEN "rejected" ELSE "hung"]
           thrown == ok /\ j.run = "encoding"
       IN /\ regStatus' = IF ok /\ job[s].enc[i] = Errored["awaited"]
                          THEN [regStatus EXCEPT ![t] = "Error"]
                          ELSE regStatus
          /\ job' = [job EXCEPT ![s] = IF thrown THEN Settle(j, "thrown") ELSE j]
          /\ queue' = IF thrown THEN Requeued(j) \o queue ELSE queue
          /\ boot' = IF ok THEN boot ELSE "exited"
    /\ UNCHANGED <<channel, tasks, issued, ticks, published, cyc, sends, sending, starting, refused>>

\* the "Completed" update transcodeVideo sends after videos/create
CompletedReport == [status |-> "Completed", diag |-> <<"none", 0>>]

\* POST videos/create answers; on success PUT update/{id} "Completed" is
\* sent in the same turn, on failure transcodeVideo throws
VideoCreated(s, ok, how) ==
    /\ Alive
    /\ job[s].run = "creating"
    /\ LET t == job[s].data.queuedTaskId
       IN IF ok
          THEN /\ job' = [job EXCEPT ![s] = [@ EXCEPT !.run = "completing", !.req = how]]
               /\ issued' = [issued EXCEPT ![t] = CompletedReport]
               /\ regStatus' = IF how = "applied"
                               THEN [regStatus EXCEPT ![t] = "Completed"]
                               ELSE regStatus
               /\ queue' = queue
          ELSE /\ how = "applied"
               /\ job' = [job EXCEPT ![s] = Settle(@, "thrown")]
               /\ queue' = Requeued(job[s]) \o queue
               /\ UNCHANGED <<issued, regStatus>>
    /\ UNCHANGED <<boot, channel, tasks, ticks, published, cyc, sends, sending, starting, refused>>

\* the "Completed" update answers: transcodeVideo returns, or its catch
\* rethrows and the message is rejected, whether or not the registry has
\* recorded the update
CompletedReported(s, ok) ==
    /\ Alive
    /\ job[s].run = "completing"
    /\ LET t == job[s].data.queuedTaskId
       IN /\ regStatus' = IF ok /\ job[s].req = "awaited"
                          THEN [regStatus EXCEPT ![t] = "Completed"]
                          ELSE regStatus
          /\ job' = [job EXCEPT ![s] =
                Settle([@ EXCEPT !.req = "none"], IF ok THEN "resolved" ELSE "thrown")]
          /\ queue' = IF ok THEN queue ELSE Requeued(job[s]) \o queue
    /\ UNCHANGED <<boot, channel, tasks, issued, ticks, published, cyc, sends, sending, starting, refused>>

---------------------------------------------------------------------------

Next ==
    \/ \E ok \in BOOLEAN : ConnectRabbitMQ(ok)
    \/ \E outcome \in StartOutcomes : StartConsumerAndScheduler(outcome)
    \/ ConsumeRejected
    \/ \E c \in Cycles : Tick(c)
    \/ \E c \in Cycles, ok \in BOOLEAN : CheckQueueAnswered(c, ok)
    \/ \E c \in Cycles, ok \in BOOLEAN : FetchPendingTasks(c, ok)
    \/ \E c \in Cycles, sent \in BOOLEAN, how \in Outcomes : ProcessTask(c, sent, how)
    \/ \E c \in Cycles, ok \in BOOLEAN : UpdateTaskStatusAnswered(c, ok)
    \/ \E s \in Slots : Deliver(s)
    \/ \E s \in Slots, i \in 1..MaxRes, how \in Outcomes : EncoderStart(s, i, how)
    \/ \E t \in TaskIds, how \in Outcomes, ok \in BOOLEAN : EncoderStartAnswered(t, how, ok)
    \/ \E s \in Slots, i \in 1..MaxRes : EncoderEnd(s, i)
    \/ \E s \in Slots, i \in 1..MaxRes, how \in Outcomes : EncoderError(s, i, how)
    \/ \E s \in Slots, i \in 1..MaxRes, ok \in BOOLEAN : EncoderErrorAnswered(s, i, ok)
    \/ \E s \in Slots, ok \in BOOLEAN, how \in Outcomes : VideoCreated(s, ok, how)
    \/ \E s \in Slots, ok \in BOOLEAN : CompletedReported(s, ok)

Spec == Init /\ [][Next]_vars

---------------------------------------------------------------------------
(* The exported operations called without waiting for connectRabbitMQ: a  *)
(* start-up that does not keep the order of startServer.                   *)

\* connectRabbitMQ() called on its own, before, during or after startServer
\* (a retry after a failed connect too): the channel is set when both awaits
\* succeed, and a failed call leaves the variable as it was
ConnectRabbitMQLate(ok) ==
    /\ Alive
    /\ channel' = (channel \/ ok)
    /\ UNCHANGED <<boot, tasks, regStatus, issued, queue, ticks, published, cyc, job, sends, sending, starting, refused>>

\* startPendingTasksScheduler() called on its own: setInterval arms the
\* timer, whether or not the channel is set, a consumer is registered or
\* startServer has failed
StartPendingTasksScheduler ==
    /\ Alive
    /\ boot' = IF ConsumerOn THEN "up" ELSE "early"
    /\ UNCHANGED <<channel, tasks, regStatus, issued, queue, ticks, published, cyc, job, sends, sending, starting, refused>>

\* what becomes of a call of startTranscodeVideoConsumer once getChannel has
\* returned: the consumer is registered; assertQueue or prefetch fails and
\* the caller gets the rejection; or the broker refuses the consume, whose
\* promise is not awaited: the call returns and the rejection is pending
ConsumerOutcomes == {"registered", "rejected", "refused"}

\* startTranscodeVideoConsumer() called on its own, in whatever state
\* startServer has left the process: while the channel is not set getChannel
\* throws before assertQueue, prefetch and consume, and the process is left
\* as it was (no further call of channel.consume is followed beyond
\* MaxConsumers)
StartTranscodeVideoConsumer(outcome) ==
    /\ Alive
    /\ Consumers < MaxConsumers
    /\ boot' = IF GetChannelThrows \/ outcome # "registered" THEN boot
               ELSE IF TimerOn THEN "up" ELSE "consuming"
    /\ refused' = (refused \/ (~GetChannelThrows /\ outcome = "refused"))
    /\ UNCHANGED <<channel, tasks, regStatus, issued, queue, ticks, published, cyc, job, sends, sending, starting>>

\* transcodeVideo(inputPath, outputPath, resolutions, queuedTaskId) called
\* from outside the consumer with the data of task t, up to its first await:
\* it goes through no channel and holds no message, one encoder is launched
\* per resolution, and the invocation takes the lowest record not in use
TranscodeVideo(s, t) ==
    /\ Alive
    /\ ticks + sends < MaxTicks
    /\ Cardinality({r \in Slots : job[r].st = "called"}) < MaxCalls
    /\ Unused(s)
    /\ \A r \in Slots : r < s => ~Unused(r)
    /\ sends' = sends + 1
    /\ LET data == JobPayload(t, tasks[t])
           launched == [i \in 1..Len(data.resolutions) |-> "launched"]
           j == [FreeJob EXCEPT !.st = "called", !.run = "encoding", !.data = data,
                                !.enc = launched]
       IN job' = [job EXCEPT ![s] = IF AllResolved(launched) THEN AfterJoin(j) ELSE j]
    /\ UNCHANGED <<boot, channel, tasks, regStatus, issued, queue, ticks, published, cyc, sending, starting, refused>>

\* sendTranscodeVideoJob(payload) called from outside the scheduler, up to
\* its await: while the channel is not set getChannel throws, otherwise
\* assertQueue is sent
SendTranscodeVideoJob(t) ==
    /\ Alive
    /\ ticks + sends < MaxTicks
    /\ sends' = sends + 1
    /\ sending' = IF GetChannelThrows THEN sending
                  ELSE [sending EXCEPT ![t] = @ + 1]
    /\ UNCHANGED <<boot, channel, tasks, regStatus, issued, queue, ticks, published, cyc, job, starting, refused>>

\* assertQueue of such a call is answered: the message is sent, or the call
\* throws to its caller
AssertQueueAnswered(t, ok) ==
    /\ Alive
    /\ sending[t] > 0
    /\ sending' = [sending EXCEPT ![t] = @ - 1]
    /\ LET thrown == AssertQueueThrows(ProducerDurable) \/ ~ok
       IN /\ queue' = IF thrown THEN queue
                       ELSE Append(queue, SendToQueue(JobPayload(t, tasks[t])))
          /\ published' = IF thrown THEN published ELSE published \cup {t}
    /\ UNCHANGED <<boot, channel, tasks, regStatus, issued, ticks, cyc, job, sends, starting, refused>>

NextUnordered ==
    \/ Next
    \/ \E ok \in BOOLEAN : ConnectRabbitMQLate(ok)
    \/ StartPendingTasksScheduler
    \/ \E outcome \in ConsumerOutcomes : StartTranscodeVideoConsumer(outcome)
    \/ \E s \in Slots, t \in TaskIds : TranscodeVideo(s, t)
    \/ \E t \in TaskIds : SendTranscodeVideoJob(t)
    \/ \E t \in TaskIds, ok \in BOOLEAN : AssertQueueAnswered(t, ok)

SpecUnordered == Init /\ [][NextUnordered]_vars

---------------------------------------------------------------------------
(* Claims *)

\* a step in which a Job Message for task t is put on the work queue
Publishes(t) ==
    /\ Len(queue') = Len(queue) + 1
    /\ queue' = Append(queue, SendToQueue(JobPayload(t, tasks[t])))

\* the task a delivered Job Message is for
TaskOf(s) == job[s].data.queuedTaskId

\* the encoder of a sub-task has failed: on("error") waits for the answer to
\* its report, has rejected the sub-task, or has thrown before it could
Failed(e) == e \in {"rejected", "hung"} \cup {Errored[how] : how \in Outcomes}

\* C1: a cycle whose depth read gives available = MAX_QUEUE_CAPACITY - depth
\* <= 0 ends at once: it asks the registry nothing (it gets no batch and
\* never reaches the fetch) and publishes and reports nothing, however often
\* the timer fires on the full queue.
C1_FullQueueSkips ==
    [][\A c \in Cycles :
        (/\ cyc[c].pc = "depth"
         /\ cyc'[c] # cyc[c]
         /\ MAX_QUEUE_CAPACITY - Len(queue) <= 0)
        => /\ queue' = queue
           /\ published' = published
           /\ regStatus' = regStatus
           /\ issued' = issued
           /\ cyc'[c].pc \in {"skipped", "aborted"}
           /\ cyc'[c].batch = <<>>]_vars

\* a cycle was skipped on a full queue, which is still full
C1_Witness ==
    \E c \in Cycles : cyc[c].pc = "skipped" /\ Len(queue) >= MAX_QUEUE_CAPACITY

\* C2: the number of messages waiting in the work queue never exceeds
\* MAX_QUEUE_CAPACITY.
C2_QueueWithinCapacity == Len(queue) <= MAX_QUEUE_CAPACITY

\* C3: at no time are two scheduler cycles between their depth read and their
\* last publish.
C3_NoOverlap ==
    Cardinality({c \in Cycles : cyc[c].pc \in {"fetch", "loop", "report"}}) <= 1

\* C4: no task id is published to the work queue more than once.
C4_PublishedOnce ==
    [][\A t \in TaskIds : Publishes(t) => t \notin published]_vars

\* C5: when a Job Message is published for a task, the task's registry status
\* is still "pending".
C5_PublishedWhilePending ==
    [][\A t \in TaskIds : Publishes(t) => regStatus[t] = "pending"]_vars

\* C6: at most one delivery is unacknowledged at any time, so no message is
\* delivered before the current one has been acknowledged or rejected.
C6_OneUnacked ==
    Cardinality({s \in Slots : job[s].st \in {"crashed", "unacked"}}) <= 1

\* a message waits in the queue while a delivery is unacknowledged
C6_Witness ==
    \E s \in Slots : job[s].st = "unacked" /\ queue # <<>>

\* C7: a delivery whose orchestrator run succeeded is acknowledged, one whose
\* run failed is rejected, and the step that rejects it puts nothing back on
\* the queue (requeue = false), so it is not delivered again.
C7_AckOrDrop ==
    [][\A s \in Slots :
        /\ job'[s].run = "resolved" <=> job'[s].st = "acked"
        /\ job'[s].run = "thrown" <=> job'[s].st = "nacked"
        /\ (job'[s].st = "nacked" /\ job[s].st = "unacked") => queue' = queue]_vars

\* one delivery has been rejected and a later one acknowledged
C7_Witness ==
    \E s, r \in Slots : job[s].st = "nacked" /\ job[r].st = "acked"

\* C8: a delivery whose payload cannot be deserialized is rejected.
C8_MalformedRejected ==
    \A s \in Slots :
        (job[s].st # "free" /\ ~job[s].msg.wellFormed) => job[s].st = "nacked"

\* C9: a manifest is written only when every sub-task of the job has
\* succeeded, and at most once per orchestrator invocation.
C9_ManifestOnlyIfAllSucceeded ==
    \A s \in Slots :
        /\ job[s].writes <= 1
        /\ (job[s].writes > 0 <=> job[s].manifest # <<>>)
        /\ job[s].writes > 0 =>
              \A i \in DOMAIN job[s].enc : job[s].enc[i] = "resolved"

\* the manifest of a job with several resolutions has been written
C9_Witness ==
    \E s \in Slots :
        /\ job[s].writes = 1
        /\ Len(job[s].enc) > 1
        /\ Len(job[s].manifest) = Len(job[s].enc) + 1

\* C10: once a job with a failed sub-task is over (its message settled, no
\* encoder running, no report of a failure awaited), no manifest exists for
\* it, its message was rejected and the last status update issued for its
\* task is "Error" with the diagnostic of one of its failed encoders.
C10_FailedJobEndsInError ==
    \A s \in Slots :
        (/\ \E i \in DOMAIN job[s].enc : Failed(job[s].enc[i])
         /\ job[s].st \in {"acked", "nacked"}
         /\ ~Live(s)
         /\ ~Reporting(s))
        => /\ job[s].manifest = <<>>
           /\ job[s].st = "nacked"
           /\ issued[TaskOf(s)].status = "Error"
           /\ \E i \in DOMAIN job[s].enc :
                /\ Failed(job[s].enc[i])
                /\ issued[TaskOf(s)].diag = <<"ffmpeg", i>>

\* C11: in every manifest written, the BANDWIDTH of the line of a resolution
\* with bitrate b (kilobit/s) is the decimal text of b * 1000.
C11_BandwidthInBitsPerSecond ==
    \A s \in Slots :
        job[s].writes > 0 =>
            \A i \in 1..Len(job[s].data.resolutions) :
                job[s].manifest[i + 1].bandwidth =
                    NumberToString(job[s].data.resolutions[i].bitrate * 1000)

\* C12: the manifest of a job starts with the format marker line, followed by
\* exactly one stream line per requested resolution, in the order requested,
\* with that resolution's width and height and the path <height>p/index.m3u8.
C12_ManifestListsEveryResolution ==
    \A s \in Slots :
        job[s].writes > 0 =>
            LET requested == job[s].data.resolutions
            IN /\ job[s].manifest[1] = [marker |-> "#EXTM3U"]
               /\ Len(job[s].manifest) = Len(requested) + 1
               /\ \A i \in 1..Len(requested) :
                     /\ job[s].manifest[i + 1].width = requested[i].width
                     /\ job[s].manifest[i + 1].height = requested[i].height
                     /\ job[s].manifest[i + 1].path =
                            <<requested[i].height, "p/index.m3u8">>

\* a job with two resolutions has succeeded and its message is acknowledged
C12_Witness ==
    \E s \in Slots :
        /\ job[s].st = "acked"
        /\ Len(job[s].data.resolutions) = 2
        /\ Len(job[s].manifest) = 3

\* C13: while the channel is not set, every operation that goes through
\* getChannel fails at once: a depth read ends its cycle in the catch before
\* anything is asked of the broker, no consumer is started and no consume is
\* sent, a send waits for no assertQueue, and nothing is published to or
\* taken from the queue: no callback has been handed a message (what runs
\* of transcodeVideo there are were called from outside the consumer).
C13_NoChannelNoOperation ==
    [][~channel =>
        /\ queue' = queue
        /\ published' = published
        /\ \A s \in Slots : job'[s].st \in {"free", "called"}
        /\ sending' = sending
        /\ ~ConsumerOn'
        /\ ~refused'
        /\ \A c \in Cycles : cyc'[c].pc \notin {"depth", "fetch", "loop", "report", "skipped"}
        /\ ticks' # ticks => \E c \in Cycles : cyc'[c].pc = "aborted"]_vars

\* the scheduler was started while the channel was not set (before the
\* connect, or after a connect that failed), a cycle of it ended in the catch
\* at the depth read, and a job sent from outside failed too
C13_Witness ==
    /\ ~channel
    /\ boot = "early"
    /\ ticks + sends = MaxTicks
    /\ ticks > 0
    /\ sends > 0
    /\ \A s \in Slots : job[s] = FreeJob
    /\ \E c \in Cycles : cyc[c].pc = "aborted"

\* C14: a turn of the batch loop, whatever became of its task (published,
\* publish failed, Error report failed too), leaves the rest of the batch to
\* be processed: a failed publish only makes the turn wait for the answer to
\* its Error report, and the cycle ends only with the last task of its list.
C14_BatchGoesOn ==
    [][\A c \in Cycles :
        /\ (cyc[c].pc = "loop" /\ cyc'[c] # cyc[c] /\ queue' = queue) =>
              /\ cyc'[c].pc = "report"
              /\ cyc'[c].batch = cyc[c].batch
        /\ (/\ cyc[c].pc \in {"loop", "report"}
            /\ cyc'[c] # cyc[c]
            /\ cyc[c].pc = "loop" => queue' # queue) =>
              IF Len(cyc[c].batch) > 1
              THEN cyc'[c].pc = "loop" /\ cyc'[c].batch = Tail(cyc[c].batch)
              ELSE cyc'[c] = IdleCycle]_vars

\* in the only cycle so far the publish of task 1 and its Error report both
\* failed, and task 2, later in the list, was published
C14_Witness ==
    /\ ticks = 1
    /\ 1 \notin published
    /\ issued[1] = [status |-> "Error", diag |-> <<"publish", 0>>]
    /\ regStatus[1] = "pending"
    /\ 2 \in published

\* C15: a turn of the batch loop that publishes nothing issues the status
\* "Error" with the publish diagnostic for its task and waits for the answer,
\* and once the answer is in the task is not in the rest of the cycle's list.
C15_FailedPublishReported ==
    [][\A c \in Cycles :
        /\ (cyc[c].pc = "loop" /\ cyc'[c] # cyc[c] /\ queue' = queue) =>
              /\ issued'[Head(cyc[c].batch)] =
                    [status |-> "Error", diag |-> <<"publish", 0>>]
              /\ published' = published
              /\ cyc'[c].pc = "report"
        /\ (cyc[c].pc = "report" /\ cyc'[c] # cyc[c]) =>
              /\ \A k \in DOMAIN cyc'[c].batch : cyc'[c].batch[k] # Head(cyc[c].batch)
              /\ issued' = issued
              /\ queue' = queue
              /\ published' = published]_vars

\* the publish of task 1 failed, the registry holds it as "Error", and the
\* cycle goes on with task 2
C15_Witness ==
    \E c \in Cycles :
        /\ cyc[c].pc = "loop"
        /\ cyc[c].batch = <<2>>
        /\ 1 \notin published
        /\ regStatus[1] = "Error"
        /\ issued[1].diag = <<"publish", 0>>

\* C18: an invocation whose depth read or registry fetch has failed never
\* gets a batch: it ends in the step of the failure, which publishes nothing
\* and issues no status update, and the next use of its record is a new
\* invocation that starts with a depth read of its own.
C18_FailedCycleDoesNothing ==
    [][\A c \in Cycles :
        /\ cyc'[c].err => cyc'[c] = AbortedCycle
        /\ (cyc'[c].err /\ cyc'[c] # cyc[c]) =>
              /\ queue' = queue
              /\ published' = published
              /\ regStatus' = regStatus
              /\ issued' = issued
        /\ (cyc[c].err /\ cyc'[c] # cyc[c]) =>
              /\ ticks' = ticks + 1
              /\ cyc'[c] = [IdleCycle EXCEPT !.pc = "depth"]]_vars

\* the first cycle failed before it had a batch (nothing was published or
\* reported and every task is still pending), and the second tick started a
\* cycle that fetched a batch
C18_Witness ==
    /\ ticks = 2
    /\ cyc[1].pc = "loop"
    /\ cyc[2] = IdleCycle
    /\ published = {}
    /\ \A t \in TaskIds : issued[t] = NoUpdate

\* C19: an invocation that goes on to the registry carries
\* available = MAX_QUEUE_CAPACITY - depth > 0 from its one depth read and
\* keeps it to its end, its list has at most that many tasks, and each turn
\* of its loop publishes at most one message and takes one task off the list.
C19_BudgetFromOneDepthRead ==
    [][\A c \in Cycles :
        /\ (cyc[c].pc = "depth" /\ cyc'[c].pc = "fetch") =>
              /\ cyc'[c].avail = MAX_QUEUE_CAPACITY - Len(queue)
              /\ cyc'[c].avail > 0
        /\ cyc'[c].pc = "fetch" => cyc[c].pc \in {"depth", "fetch"}
        /\ (/\ cyc[c].pc \in {"fetch", "loop", "report"}
            /\ cyc'[c].pc \in {"fetch", "loop", "report"}) =>
              cyc'[c].avail = cyc[c].avail
        /\ cyc'[c].pc \in {"loop", "report"} => Len(cyc'[c].batch) <= cyc'[c].avail
        /\ (cyc[c].pc \in {"loop", "report"} /\ cyc'[c] # cyc[c]) =>
              /\ Len(queue') <= Len(queue) + 1
              /\ cyc'[c].pc # "report" => Len(cyc'[c].batch) = Len(cyc[c].batch) - 1
              /\ cyc'[c].pc = "report" => queue' = queue]_vars

\* one slot is available while two tasks are pending, and the cycle holds a
\* list of one task
C19_Witness ==
    \E c \in Cycles :
        /\ cyc[c].pc = "loop"
        /\ cyc[c].avail = 1
        /\ Len(cyc[c].batch) = 1
        /\ \A t \in TaskIds : regStatus[t] = "pending"

\* C16: a failed registry call of the orchestrator changes nothing about the
\* outcome: a delivery is acknowledged only if every encode succeeded and
\* rejected only if an encode failed, and no delivery is left unsettled in a
\* job that is still joining its sub-tasks while none of its encoders runs
\* and no report of a failed encoder is awaited.
C16_ReportFailureKeepsOutcome ==
    \A s \in Slots :
        /\ job[s].st = "acked" =>
              \A i \in DOMAIN job[s].enc : job[s].enc[i] = "resolved"
        /\ job[s].st = "nacked" =>
              \E i \in DOMAIN job[s].enc : Failed(job[s].enc[i])
        /\ ~(/\ job[s].st = "unacked"
             /\ job[s].run = "encoding"
             /\ ~Live(s)
             /\ ~Reporting(s))

\* a rejection nobody handles, on which the process ends: the consume
\* callback threw at JSON.parse, or an on("error") handler threw at its
\* status update
Escaped(s) ==
    \/ job[s].st = "crashed"
    \/ \E i \in DOMAIN job[s].enc : job[s].enc[i] = "hung"

\* C17: no failure of one message or one sub-task escapes its handler.
C17_NothingEscapes == \A s \in Slots : ~Escaped(s)

\* C20: a job has one sub-task per requested resolution, and once the
\* orchestrator has returned (the message is settled) no encoder of the job is
\* still running; a job with a rejected sub-task is never acknowledged.
C20_ReturnsAfterAllSubtasks ==
    \A s \in Slots :
        /\ job[s].run # "none" =>
              Len(job[s].enc) = Len(job[s].data.resolutions)
        /\ job[s].st \in {"acked", "nacked"} => ~Live(s)
        /\ (\E i \in DOMAIN job[s].enc : job[s].enc[i] = "rejected") =>
              job[s].st = "nacked"

\* C21: at any time the encoders running in the consumer process belong to a
\* single job.
C21_OneJobInFlight ==
    Cardinality({s \in Slots : Live(s)}) <= 1

\* C22: when the consumer rejects the message of a deserializable job, the
\* status last issued for the job's task is "Error".
C22_RejectedMeansErrorRecorded ==
    [][\A s \in Slots :
        (job[s].st = "unacked" /\ job'[s].st = "nacked") =>
            issued'[job[s].data.queuedTaskId].status = "Error"]_vars

\* C23: the manifest is written before the videos/create call is sent, the
\* "Completed" update is sent only after videos/create has answered, and
\* "Completed" is issued only by a job whose manifest was written.
C23_CompletionInOrder ==
    [][/\ \A s \in Slots :
            /\ (job'[s].run = "creating" /\ job[s].run # "creating") =>
                  job'[s].writes = 1 /\ job'[s].manifest # <<>>
            /\ (job'[s].run = "completing" /\ job[s].run # "completing") =>
                  /\ job[s].run = "creating"
                  /\ job[s].writes = 1
                  /\ issued'[job[s].data.queuedTaskId] = CompletedReport
       /\ \A t \in TaskIds :
            (issued'[t].status = "Completed" /\ issued[t].status # "Completed") =>
                \E s \in Slots :
                    /\ job[s].data.queuedTaskId = t
                    /\ job[s].run = "creating"
                    /\ job'[s].run = "completing"
                    /\ job[s].manifest # <<>>]_vars

\* a job with an encoder has run to the end: manifest written, video record
\* created, "Completed" held by the registry, message acknowledged
C23_Witness ==
    \E s \in Slots :
        /\ job[s].run = "resolved"
        /\ job[s].writes = 1
        /\ Len(job[s].enc) >= 1
        /\ regStatus[job[s].data.queuedTaskId] = "Completed"
        /\ issued[job[s].data.queuedTaskId].status = "Completed"

\* C24: the channel is set once, by the connect step at process start; the
\* consumer and the scheduler are started, and a consume is sent, only after
\* that; after a failed connect the channel stays unset and they never run,
\* and a start-up that has failed starts neither of them later on.
C24_ConnectBeforeStart ==
    [][/\ channel' # channel => (boot = "start" /\ channel')
       /\ (ConsumerOn' \/ TimerOn' \/ refused') => channel'
       /\ (boot = "start" /\ ~channel') => boot' \in {"start", "failed"}
       /\ boot = "failed" => (~ConsumerOn' /\ ~TimerOn')
       /\ (ticks' # ticks \/ cyc' # cyc) => (TimerOn /\ channel)
       /\ job' # job => (ConsumerOn /\ channel)
       /\ ~channel' =>
             /\ ticks' = 0
             /\ \A s \in Slots : job'[s] = FreeJob
             /\ \A c \in Cycles : cyc'[c] = IdleCycle]_vars

\* after a successful connect the scheduler has ticked and the consumer has
\* taken a message
C24_Witness ==
    /\ boot = "up"
    /\ channel
    /\ ticks > 0
    /\ \E s \in Slots : job[s].st # "free"

\* C25: every Job Message the broker holds or has delivered was published
\* persistent to a queue declared durable, the consumer declares the queue
\* durable too, and a delivery is unacknowledged when the callback gets it.
C25_DurablePersistentManualAck ==
    [][/\ \A i \in DOMAIN queue' :
            queue'[i].wellFormed =>
                queue'[i].persistent /\ queue'[i].queueDurable
       /\ \A s \in Slots :
            /\ (job'[s].st # "free" /\ job'[s].msg.wellFormed) =>
                  job'[s].msg.persistent /\ job'[s].msg.queueDurable
            /\ (job'[s] # job[s] /\ Len(queue') < Len(queue)) =>
                  job'[s].st \in {"unacked", "crashed"}
       /\ ConsumerOn' => ConsumerDurable]_vars

\* a Job Message published by this run waits in the queue while an earlier
\* one is with the consumer, unacknowledged
C25_Witness ==
    /\ published # {}
    /\ queue # <<>>
    /\ queue[Len(queue)].wellFormed
    /\ \E s \in Slots : job[s].st = "unacked" /\ job[s].msg.wellFormed

\* C27: the step in which an invocation gets the registry's answer while no
\* task is pending ends the invocation, and it publishes nothing and issues no
\* status update.
C27_NoTasksNoAction ==
    [][\A c \in Cycles :
        (/\ cyc[c].pc = "fetch"
         /\ cyc'[c] # cyc[c]
         /\ \A t \in TaskIds : regStatus[t] # "pending") =>
            /\ cyc'[c].pc \in {"nothing", "aborted"}
            /\ cyc'[c].batch = <<>>
            /\ queue' = queue
            /\ published' = published
            /\ regStatus' = regStatus
            /\ issued' = issued]_vars

\* an invocation has returned on the registry's empty list
C27_Witness ==
    \E c \in Cycles :
        /\ cyc[c].pc = "nothing"
        /\ \A t \in TaskIds : regStatus[t] # "pending"

\* C28: the step in which an encoder starts issues "Processing" for the
\* job's task; a sub-task resolves only after its encoder has started, and
\* "Completed" is issued only by a job whose sub-tasks have all resolved, so
\* after the "Processing" of each of them.
C28_ProcessingAtStart ==
    [][\A s \in Slots :
        /\ \A i \in DOMAIN job[s].enc \cap DOMAIN job'[s].enc :
              /\ (job[s].enc[i] = "launched" /\ job'[s].enc[i] = "started") =>
                    issued'[job[s].data.queuedTaskId] =
                        [status |-> "Processing", diag |-> <<"none", 0>>]
              /\ (job[s].enc[i] # "resolved" /\ job'[s].enc[i] = "resolved") =>
                    job[s].enc[i] = "started"
        /\ (job'[s].run = "completing" /\ job[s].run # "completing") =>
              /\ issued'[TaskOf(s)].status = "Completed"
              /\ \A i \in DOMAIN job[s].enc : job[s].enc[i] = "resolved"]_vars

\* an encoder is running and the registry holds its task as "Processing"
C28_Witness ==
    \E s \in Slots : \E i \in DOMAIN job[s].enc :
        /\ job[s].enc[i] = "started"
        /\ issued[job[s].data.queuedTaskId].status = "Processing"
        /\ regStatus[job[s].data.queuedTaskId] = "Processing"

\* C29: the step in which an encoder fails issues "Error" with that
\* encoder's diagnostic for the job's task, and when that update has been
\* answered the sub-task's promise is rejected; a sub-task whose encoder has
\* failed never resolves.
C29_EncoderFailureRejects ==
    [][\A s \in Slots : \A i \in DOMAIN job[s].enc \cap DOMAIN job'[s].enc :
        /\ (job[s].enc[i] \in {"launched", "started"}
             /\ job'[s].enc[i] \notin {"launched", "started", "resolved"}) =>
              /\ issued'[job[s].data.queuedTaskId] =
                    [status |-> "Error", diag |-> <<"ffmpeg", i>>]
              /\ \E how \in Outcomes : job'[s].enc[i] = Errored[how]
        /\ ((\E how \in Outcomes : job[s].enc[i] = Errored[how])
             /\ job'[s].enc[i] # job[s].enc[i]) =>
              job'[s].enc[i] = "rejected"
        /\ (Failed(job[s].enc[i]) /\ job'[s].msg = job[s].msg) =>
              job'[s].enc[i] # "resolved"]_vars

\* C30: a delivery that is neither acknowledged nor rejected always has an
\* event to wait for that can settle it: an encoder of its job that is still
\* to end or fail, or the answer to a registry call made for it. (Where this
\* fails nothing can change the delivery any more, so it is never settled,
\* however the encoders and the registry behave; where it holds, each of the
\* finitely many events brings the delivery nearer to its ack or nack.)
C30_UnsettledDeliveryHasEventPending ==
    \A s \in Slots :
        job[s].st \in {"unacked", "crashed"} =>
            \/ Live(s)
            \/ Reporting(s)
            \/ job[s].run \in {"creating", "completing"}

\* a step of the scheduler: an invocation of processPendingTasks moves
SchedulerStep == cyc' # cyc

\* the invocation c is in the turn of its loop for task t, at the publish or
\* waiting for the answer to its Error report, and moves
ReportTurn(c, t) ==
    /\ cyc'[c] # cyc[c]
    /\ cyc[c].pc \in {"loop", "report"}
    /\ Head(cyc[c].batch) = t

\* a step of the invocation of transcodeVideo in slot s, for task t
JobStep(s, t) == job'[s] # job[s] /\ job'[s].data.queuedTaskId = t

\* a PUT "Processing" an encoder sent for task t is answered
StartAnswered(t) ==
    starting'[t].applied + starting'[t].awaited < starting[t].applied + starting[t].awaited

\* C31, as stated: publishing a Job Message issues no status update; the
\* scheduler changes a status only to "Error" and only in a turn whose publish
\* failed; and a published task stays "pending" until an encoder of a consumer
\* starts, that is, the first status a published task takes is "Processing".
C31_PendingUntilEncoderStarts ==
    [][\A t \in TaskIds :
        /\ Publishes(t) => regStatus' = regStatus /\ issued' = issued
        /\ (SchedulerStep /\ regStatus'[t] # regStatus[t])
              => regStatus'[t] = "Error" /\ queue' = queue
        /\ (t \in published /\ regStatus[t] = "pending" /\ regStatus'[t] # "pending")
              => regStatus'[t] = "Processing"]_vars

\* C31, amended: publishing a Job Message issues no status update; the
\* scheduler issues only the report of a failed publish, for the task of that
\* turn, and changes a status only to "Error", in the turn of that task; and a
\* task leaves "pending" only for "Error" by the scheduler or for
\* "Processing", "Error" or "Completed" by a job of a consumer for that task.
C31_PublishIssuesNoUpdate ==
    [][\A t \in TaskIds :
        /\ Publishes(t) => regStatus' = regStatus /\ issued' = issued
        /\ (SchedulerStep /\ issued'[t] # issued[t])
              => /\ issued'[t] = UpdateTaskStatusPayload("Error", PublishError)
                 /\ queue' = queue
                 /\ \E c \in Cycles : ReportTurn(c, t) /\ cyc'[c].pc = "report"
        /\ (SchedulerStep /\ regStatus'[t] # regStatus[t])
              => /\ regStatus'[t] = "Error"
                 /\ queue' = queue
                 /\ \E c \in Cycles : ReportTurn(c, t)
        /\ (regStatus[t] = "pending" /\ regStatus'[t] # "pending")
              => /\ regStatus'[t] \in {"Processing", "Error", "Completed"}
                 /\ \/ SchedulerStep
                    \/ \E s \in Slots : JobStep(s, t)
                    \/ StartAnswered(t)]_vars

\* a task published by this run is still "pending" with no report issued,
\* while its message waits in the queue
C31_Witness ==
    \E t \in published :
        /\ regStatus[t] = "pending"
        /\ issued[t] = NoUpdate
        /\ \E i \in DOMAIN queue : queue[i] = SendToQueue(JobPayload(t, tasks[t]))

\* the broker hands a message to the callback of slot s in this step
Delivered(s) == Len(queue') < Len(queue) /\ job'[s] # job[s]

\* C32: a message is acknowledged only in the step in which the "Completed"
\* update of its job returns successfully, after every sub-task resolved, the
\* manifest was written and videos/create returned successfully; and a
\* delivery that was acknowledged or rejected keeps that outcome: the callback
\* does nothing more for it.
C32_AckOnlyAfterFullSuccess ==
    [][\A s \in Slots :
        /\ (job'[s].st = "acked" /\ job[s].st # "acked")
              => /\ job[s].st = "unacked"
                 /\ job[s].run = "completing"
                 /\ job[s].req \in Outcomes
                 /\ job'[s].run = "resolved"
                 /\ \A i \in DOMAIN job[s].enc : job[s].enc[i] = "resolved"
                 /\ Len(job[s].enc) = Len(job[s].data.resolutions)
                 /\ job[s].writes = 1
                 /\ job[s].manifest # <<>>
                 /\ job[s].req = "awaited" => regStatus'[TaskOf(s)] = "Completed"
        /\ (job[s].st \in {"acked", "nacked"} /\ ~Delivered(s))
              => job'[s].st = job[s].st
        /\ job[s].st = "acked" => job[s].run = "resolved"]_vars

\* a job has been acknowledged after both its encoders resolved and its
\* task was recorded as "Completed"
C32_Witness ==
    \E s \in Slots :
        /\ job[s].st = "acked"
        /\ job[s].enc = <<"resolved", "resolved">>
        /\ job[s].writes = 1
        /\ regStatus[TaskOf(s)] = "Completed"

\* the invocation of transcodeVideo in slot s is past its Promise.all
PastJoin(s) == job[s].run \in {"creating", "completing", "resolved"}

\* C33: in one invocation of transcodeVideo "Completed" and "Error" exclude
\* each other. An invocation in which a sub-task failed (and issued "Error")
\* never gets past the join, so it never issues "Completed"; the step that
\* issues "Completed" is taken with every sub-task resolved; and after it the
\* invocation only takes the answer and issues no further update.
C33_CompletedExcludesError ==
    [][\A s \in Slots :
        /\ (\E i \in DOMAIN job[s].enc : Failed(job[s].enc[i])) => ~PastJoin(s)
        /\ (\E i \in DOMAIN job'[s].enc : Failed(job'[s].enc[i])) => ~PastJoin(s)
        /\ (job'[s].run = "completing" /\ job[s].run # "completing")
              => /\ issued'[TaskOf(s)].status = "Completed"
                 /\ \A i \in DOMAIN job[s].enc : job[s].enc[i] = "resolved"
        /\ (job[s].run = "completing" /\ job'[s] # job[s])
              => /\ issued' = issued
                 /\ job'[s].run \in {"resolved", "thrown"}
        /\ (/\ job[s].run \in {"resolved", "thrown"}
            /\ ~Live(s)
            /\ ~Reporting(s)
            /\ ~Delivered(s))
              => job'[s] = job[s]]_vars

\* an invocation with two sub-tasks has thrown: one sub-task failed and its
\* "Error" is the last report of the task, the other one resolved
C33_Witness ==
    \E s \in Slots :
        /\ job[s].run = "thrown"
        /\ \E i, k \in DOMAIN job[s].enc :
              job[s].enc[i] = "rejected" /\ job[s].enc[k] = "resolved"
        /\ issued[TaskOf(s)].status = "Error"
        /\ job[s].manifest = <<>>

\* C34: within a cycle the Job Messages are published one at a time, each
\* for the first task of what is left of the list the registry returned, and
\* each at the back of the queue; no step reorders the queue; and the consumer
\* is handed the message at the front of the queue, only while no earlier
\* delivery is unsettled.
C34_PublishedAndConsumedInOrder ==
    [][/\ \A c \in Cycles :
            /\ (cyc[c].pc = "fetch" /\ cyc'[c].pc = "loop")
                  => cyc'[c].batch = PendingList(cyc[c].avail, regStatus)
            /\ (cyc[c].pc \in {"loop", "report"} /\ cyc'[c] # cyc[c])
                  => /\ queue' # queue =>
                          /\ cyc[c].pc = "loop"
                          /\ queue' = Append(queue,
                                SendToQueue(JobPayload(Head(cyc[c].batch),
                                                       tasks[Head(cyc[c].batch)])))
                     /\ \/ cyc'[c].batch = Tail(cyc[c].batch)
                        \/ cyc'[c].batch = <<>>
                        \/ cyc'[c].pc = "report" /\ cyc'[c].batch = cyc[c].batch
       /\ Len(queue') >= Len(queue)
            => Len(queue') <= Len(queue) + 1 /\ SubSeq(queue', 1, Len(queue)) = queue
       /\ \A s \in Slots :
            Delivered(s)
              => /\ queue' = Tail(queue)
                 /\ job'[s].msg = Head(queue)
                 /\ \A r \in Slots : ~Unsettled(r)]_vars

\* one cycle has published task 1 and then task 2; the message of task 1
\* has been delivered and settled, and that of task 2 is now being processed
C34_Witness ==
    /\ ticks = 1
    /\ published = {1, 2}
    /\ queue = <<>>
    /\ \E r \in Slots : TaskOf(r) = 2 /\ job[r].st = "unacked"

\* the callback of slot s has parsed a Job Message
Parsed(s) == job[s].st \notin {"free", "crashed"}

\* C35: the data a callback has parsed from its message, and hands to
\* transcodeVideo, names a task of the registry and carries that task's id,
\* its videoUpload.path and its videoUpload.resolution, element by element
\* and in the same order.
C35_JobCarriesTheTask ==
    \A s \in Slots :
        Parsed(s) =>
            /\ TaskOf(s) \in TaskIds
            /\ job[s].data.inputPath = tasks[TaskOf(s)].path
            /\ Len(job[s].data.resolutions) = Len(tasks[TaskOf(s)].resolution)
            /\ \A i \in DOMAIN job[s].data.resolutions :
                  job[s].data.resolutions[i] = tasks[TaskOf(s)].resolution[i]

\* the message of task 2, published by this run with its two resolutions
\* written out as text, has been parsed by a callback
C35_Witness ==
    \E s \in Slots :
        /\ Parsed(s)
        /\ 2 \in published
        /\ Len(job[s].data.resolutions) = 2
        /\ Len(job[s].msg.text.resolutions) = 2
        /\ job[s].msg = SendToQueue(JobPayload(2, tasks[2]))
        /\ job[s].msg.text.queuedTaskId = <<"2">>
        /\ job[s].msg.text.resolutions[2].bitrate = <<"2", "5", "0", "0">>

\* C36: the manifest of a job is a function of its resolution list alone.
\* Its stream lines stand in the order of the list, the i-th line describing
\* the i-th resolution, in whatever order the sub-tasks resolved; and two
\* jobs with the same list have the same manifest.
C36_ManifestInRequestedOrder ==
    \A s \in Slots :
        job[s].writes > 0 =>
            /\ Len(job[s].manifest) = Len(job[s].data.resolutions) + 1
            /\ \A i \in DOMAIN job[s].data.resolutions :
                  /\ job[s].manifest[i + 1].width = job[s].data.resolutions[i].width
                  /\ job[s].manifest[i + 1].height = job[s].data.resolutions[i].height
                  /\ job[s].manifest[i + 1].path =
                        Playlist(job[s].data.resolutions[i]).path
            /\ \A r \in Slots :
                  (job[r].writes > 0 /\ job[r].data.resolutions = job[s].data.resolutions)
                      => job[r].manifest = job[s].manifest

\* the manifest of a job was written after its second sub-task resolved
\* before its first
C36_Witness ==
    \E s \in Slots :
        /\ job[s].writes = 1
        /\ job[s].done = <<2, 1>>
        /\ job[s].manifest[2].height = 360
        /\ job[s].manifest[3].height = 720

\* the callback of slot s, in the state after the step, works on a job whose
\* resolution list is empty
EmptyJob(s) == job'[s].st \notin {"free", "crashed"} /\ job'[s].data.resolutions = <<>>

\* C37: a job with the empty resolution list launches no encoder and is
\* successful: at its delivery the manifest is written with the marker line
\* alone and videos/create is sent, then "Completed" is reported, with no
\* other report issued by its steps, and the message is acknowledged.
C37_EmptyListSucceeds ==
    [][\A s \in Slots :
        EmptyJob(s) =>
            /\ job'[s].enc = <<>>
            /\ job'[s].writes = 1
            /\ job'[s].manifest = <<[marker |-> "#EXTM3U"]>>
            /\ Delivered(s) => job'[s].run = "creating" /\ job'[s].st = "unacked"
            /\ (job'[s] # job[s] /\ ~Delivered(s))
                  => /\ job[s].run \in {"creating", "completing"}
                     /\ job[s].run = "creating"
                           => /\ job'[s].run = "completing"
                              /\ job'[s].st = "unacked"
                              /\ issued'[TaskOf(s)] = CompletedReport
                     /\ job[s].run = "completing"
                           => /\ issued' = issued
                              /\ job'[s].st = "acked"
            /\ \A t \in TaskIds :
                  (job'[s] # job[s] /\ issued'[t] # issued[t])
                      => issued'[t].status = "Completed"]_vars

\* the record of an invocation whose depth read has been answered on a queue
\* of the given depth: ended by a failed read, skipped on a full queue, or
\* about to ask the registry for the slots that depth leaves
FreshCycles(depth) ==
    {AbortedCycle} \cup
    (IF MAX_QUEUE_CAPACITY - depth <= 0
     THEN {[IdleCycle EXCEPT !.pc = "skipped"]}
     ELSE {[IdleCycle EXCEPT !.pc = "fetch", !.avail = MAX_QUEUE_CAPACITY - depth]})

\* C38: once started the timer stays armed, whatever the cycles did: no step
\* of a cycle stops the scheduler, and while the process runs a tick is
\* possible (up to the bound on ticks) in every state, whether earlier cycles
\* were skipped, found nothing, published or failed, or are still running. Each tick starts one invocation with a
\* depth read and changes nothing else, and the record the invocation goes on
\* with is computed from the depth of the queue at the answer and holds no
\* slots or batch of an earlier cycle.
C38_SchedulerKeepsTicking ==
    [][/\ (TimerOn /\ SchedulerStep) => boot' = boot
       /\ (TimerOn /\ ticks + sends < MaxTicks)
            => ENABLED (\E c \in Cycles : Tick(c))
       /\ ticks' # ticks
            => /\ ticks' = ticks + 1
               /\ \E c \in Cycles :
                    /\ ~Active(c)
                    /\ cyc'[c] = [IdleCycle EXCEPT !.pc = "depth"]
                    /\ \A d \in Cycles \ {c} : cyc'[d] = cyc[d]
               /\ queue' = queue /\ regStatus' = regStatus /\ issued' = issued
       /\ \A c \in Cycles :
            (cyc[c].pc = "depth" /\ cyc'[c] # cyc[c])
                => /\ cyc'[c] \in FreshCycles(Len(queue))
                   /\ ticks' = ticks]_vars

\* after a cycle that published its batch and returned, with messages still
\* in the queue, a second tick has started a cycle on the depth it read
C38_Witness ==
    /\ ticks = 2
    /\ published # {}
    /\ Len(queue) > 0
    /\ \E c \in Cycles :
          /\ cyc[c] = [IdleCycle EXCEPT !.pc = "fetch",
                                        !.avail = MAX_QUEUE_CAPACITY - Len(queue)]
          /\ \A d \in Cycles \ {c} : cyc[d] = IdleCycle
====
